---- MODULE Spec2Model ----
(***************************************************************************)
(* Model of src/main.go: the README generator.  One run of main is a       *)
(* linear pipeline                                                         *)
(*     fetchImage -> encodeImageToBase64 -> generateMarkdown               *)
(*                -> os.WriteFile("README.md") -> fmt.Println              *)
(* in which every stage that returns an error ends the process through     *)
(* log.Fatalf.                                                             *)
(*                                                                         *)
(* Go strings are sequences of one-character strings and []byte values are *)
(* sequences of integers 0..255, so that strings.HasPrefix, fmt.Sprintf    *)
(* and base64 are computed rather than assumed.  What the network, the     *)
(* file system and the clock answer is chosen by the environment in the    *)
(* action that asks.                                                       *)
(***************************************************************************)
EXTENDS Integers, Sequences, FiniteSets, TLC

VARIABLES
    pc,          \* position of main: fetch, encode, render, write, print, done, fatal
    url,         \* the url argument handed to fetchImage
    resp,        \* what client.Do / io.ReadAll answered (NoResp before the request)
    imageData,   \* main's imageData
    mimeType,    \* main's mimeType
    base64Data,  \* main's base64Data
    markdown,    \* main's markdown
    err,         \* main's err
    imageURL,    \* the ImageURL field handed to tmpl.Execute (empty before)
    tplFile,     \* the file tpl/README.md.tmpl
    readme,      \* the file README.md
    gets,        \* number of client.Do calls issued
    writes,      \* number of os.WriteFile calls issued
    printed,     \* number of confirmation lines printed on stdout
    fatalLog,    \* the message of log.Fatalf (NoLog while none)
    trace        \* the stages entered so far, in order

vars == <<pc, url, resp, imageData, mimeType, base64Data, markdown, err,
          imageURL, tplFile, readme, gets, writes, printed, fatalLog, trace>>

----------------------------------------------------------------------------
(* Bounds of the model *)

\* longest payload appended to a file signature in the response bodies
MaxTailLen == 2

----------------------------------------------------------------------------
(* Strings and bytes *)

RECURSIVE SeqsUpTo(_, _)
SeqsUpTo(S, n) ==
    IF n = 0 THEN {<<>>}
    ELSE LET shorter == SeqsUpTo(S, n - 1)
         IN  shorter \cup {Append(s, x) : s \in {t \in shorter : Len(t) = n - 1}, x \in S}

\* strings.HasPrefix / bytes.HasPrefix
HasPrefix(s, prefix) ==
    /\ Len(s) >= Len(prefix)
    /\ SubSeq(s, 1, Len(prefix)) = prefix

ImageWebp == <<"i","m","a","g","e","/","w","e","b","p">>
ImageJpeg == <<"i","m","a","g","e","/","j","p","e","g">>
ImagePng  == <<"i","m","a","g","e","/","p","n","g">>
ImagePngParam == <<"i","m","a","g","e","/","p","n","g",";"," ","c","h","a","r","s","e","t","=","b","i","n","a","r","y">>
ImageGif  == <<"i","m","a","g","e","/","g","i","f">>
TextPlainUtf8 == <<"t","e","x","t","/","p","l","a","i","n",";"," ","c","h","a","r","s","e","t","=","u","t","f","-","8">>
OctetStream == <<"a","p","p","l","i","c","a","t","i","o","n","/","o","c","t","e","t","-","s","t","r","e","a","m">>

\* the error value: nil, or fmt.Errorf's context prefix with what follows it;
\* the format's %s argument (a string) is arg, the text of %d or %w is detail
Nil == [msg |-> "", arg |-> <<>>, detail |-> ""]
Errorf(prefix, arg, detail) == [msg |-> prefix, arg |-> arg, detail |-> detail]

----------------------------------------------------------------------------
(* The environment: URLs, HTTP exchanges, image files *)

imgURL == "https://songstitch.art/collage?username=grumpylama&...&webp=false"
MalformedURL == "%zz://songstitch.art"
\* http.NewRequestWithContext rejects a url that url.Parse rejects
ValidURL(u) == u # MalformedURL

StatusOK == 200
StatusCodes == {StatusOK, 404}

\* file signatures (image/png, image/jpeg, image/webp) as net/http sniffs them
PngSig  == <<137, 80, 78, 71, 13, 10, 26, 10>>
JpegSig == <<255, 216, 255>>
WebpSig == <<82, 73, 70, 70, 4, 0, 0, 0, 87, 69, 66, 80, 86, 80>>

TailBytes == {0, 77, 255}
Tails == SeqsUpTo(TailBytes, MaxTailLen)
Bodies == {sig \o tail : sig \in {<<>>, PngSig, JpegSig, WebpSig}, tail \in Tails}

\* Content-Type values a server may send; <<>> is a missing or empty header
ContentTypes == {<<>>, ImagePng, ImageJpeg, ImageWebp, ImagePngParam, ImageGif}

NoResp == [kind |-> "none", status |-> 0, contentType |-> <<>>, body |-> <<>>,
           readErr |-> FALSE, cause |-> ""]
NetErrors ==
    {[kind |-> "neterr", status |-> 0, contentType |-> <<>>, body |-> <<>>,
      readErr |-> FALSE, cause |-> c] : c \in {"context deadline exceeded", "connection refused"}}
\* io.ReadAll runs on the body of a 200 response only, so readErr is drawn there
Responses ==
    {r \in [kind : {"resp"}, status : StatusCodes, contentType : ContentTypes,
            body : Bodies, readErr : BOOLEAN, cause : {"", "unexpected EOF"}] :
        /\ r.readErr => r.status = StatusOK
        /\ r.cause = IF r.readErr THEN "unexpected EOF" ELSE ""}
NetOutcomes == NetErrors \cup Responses

\* http.DetectContentType, restricted to the signatures above
DetectContentType(data) ==
    IF HasPrefix(data, PngSig) THEN ImagePng
    ELSE IF HasPrefix(data, JpegSig) THEN ImageJpeg
    ELSE IF /\ Len(data) >= Len(WebpSig)
            /\ SubSeq(data, 1, 4) = SubSeq(WebpSig, 1, 4)
            /\ SubSeq(data, 9, 14) = SubSeq(WebpSig, 9, 14) THEN ImageWebp
    ELSE IF \E i \in 1..Len(data) : data[i] = 0 THEN OctetStream
    ELSE TextPlainUtf8

\* The image decoders (png.Decode, jpeg.Decode, webp.Decode): a file is the
\* format's signature followed by a non-empty payload; a bare signature is a
\* truncated file.  Each returns the decode error ("" for none).
DecodeAs(sig, data, what) ==
    IF HasPrefix(data, sig) /\ Len(data) > Len(sig) THEN ""
    ELSE IF HasPrefix(data, sig) THEN "unexpected EOF"
    ELSE what
webpDecode(data) == DecodeAs(WebpSig, data, "riff: missing RIFF chunk header")
jpegDecode(data) == DecodeAs(JpegSig, data, "invalid JPEG format: missing SOI marker")
pngDecode(data)  == DecodeAs(PngSig, data, "png: invalid format: not a PNG file")

----------------------------------------------------------------------------
(* fetchImage *)

\* fetchImage without the status check of lines 72-74
fetchImageNoStatusCheck(u, net) ==
    IF ~ValidURL(u)
    THEN [data |-> <<>>, mime |-> <<>>, err |-> Errorf("creating request", <<>>, "invalid URL escape")]
    ELSE IF net.kind = "neterr"
    THEN [data |-> <<>>, mime |-> <<>>, err |-> Errorf("making request", <<>>, net.cause)]
    ELSE IF net.readErr
    THEN [data |-> <<>>, mime |-> <<>>, err |-> Errorf("reading response body", <<>>, net.cause)]
    ELSE [data |-> net.body,
          mime |-> IF net.contentType = <<>> THEN DetectContentType(net.body)
                   ELSE net.contentType,
          err  |-> Nil]

\* fetchImage that sniffs the body whatever the header says
fetchImageAlwaysSniff(u, net) ==
    IF ~ValidURL(u)
    THEN [data |-> <<>>, mime |-> <<>>, err |-> Errorf("creating request", <<>>, "invalid URL escape")]
    ELSE IF net.kind = "neterr"
    THEN [data |-> <<>>, mime |-> <<>>, err |-> Errorf("making request", <<>>, net.cause)]
    ELSE IF net.status # StatusOK
    THEN [data |-> <<>>, mime |-> <<>>,
          err |-> Errorf("unexpected status code", <<>>, ToString(net.status))]
    ELSE IF net.readErr
    THEN [data |-> <<>>, mime |-> <<>>, err |-> Errorf("reading response body", <<>>, net.cause)]
    ELSE [data |-> net.body, mime |-> DetectContentType(net.body), err |-> Nil]

\* fetchImage that reports a failed request construction as a failed request
\* and hands back what io.ReadAll had read when it failed
fetchImageBlurredErrors(u, net) ==
    IF ~ValidURL(u)
    THEN [data |-> <<>>, mime |-> <<>>, err |-> Errorf("making request", <<>>, "invalid URL escape")]
    ELSE IF net.kind = "neterr"
    THEN [data |-> <<>>, mime |-> <<>>, err |-> Errorf("making request", <<>>, net.cause)]
    ELSE IF net.status # StatusOK
    THEN [data |-> <<>>, mime |-> <<>>,
          err |-> Errorf("unexpected status code", <<>>, ToString(net.status))]
    ELSE IF net.readErr
    THEN [data |-> net.body, mime |-> <<>>, err |-> Errorf("reading response body", <<>>, net.cause)]
    ELSE [data |-> net.body,
          mime |-> IF net.contentType = <<>> THEN DetectContentType(net.body)
                   ELSE net.contentType,
          err  |-> Nil]

\* fetchImage(ctx, url) against the exchange `net`: (data, mimeType, err)
fetchImage(u, net) ==
    IF ~ValidURL(u)
    THEN [data |-> <<>>, mime |-> <<>>, err |-> Errorf("creating request", <<>>, "invalid URL escape")]
    ELSE IF net.kind = "neterr"
    THEN [data |-> <<>>, mime |-> <<>>, err |-> Errorf("making request", <<>>, net.cause)]
    ELSE IF net.status # StatusOK
    THEN [data |-> <<>>, mime |-> <<>>,
          err |-> Errorf("unexpected status code", <<>>, ToString(net.status))]
    ELSE IF net.readErr
    THEN [data |-> <<>>, mime |-> <<>>, err |-> Errorf("reading response body", <<>>, net.cause)]
    ELSE [data |-> net.body,
          mime |-> IF net.contentType = <<>> THEN DetectContentType(net.body)
                   ELSE net.contentType,
          err  |-> Nil]

----------------------------------------------------------------------------
(* encoding/base64, StdEncoding *)

B64Alphabet == <<"A","B","C","D","E","F","G","H","I","J","K","L","M","N","O","P","Q","R","S","T","U","V","W","X","Y","Z","a","b","c","d","e","f","g","h","i","j","k","l","m","n","o","p","q","r","s","t","u","v","w","x","y","z","0","1","2","3","4","5","6","7","8","9","+","/">>
B64Char(i) == B64Alphabet[i + 1]

RECURSIVE EncodeToString(_)
EncodeToString(src) ==
    IF Len(src) = 0 THEN <<>>
    ELSE IF Len(src) = 1 THEN
        <<B64Char(src[1] \div 4), B64Char((src[1] % 4) * 16), "=", "=">>
    ELSE IF Len(src) = 2 THEN
        <<B64Char(src[1] \div 4),
          B64Char((src[1] % 4) * 16 + src[2] \div 16),
          B64Char((src[2] % 16) * 4), "=">>
    ELSE
        <<B64Char(src[1] \div 4),
          B64Char((src[1] % 4) * 16 + src[2] \div 16),
          B64Char((src[2] % 16) * 4 + src[3] \div 64),
          B64Char(src[3] % 64)>> \o EncodeToString(SubSeq(src, 4, Len(src)))

----------------------------------------------------------------------------
(* encodeImageToBase64 *)

\* encodeImageToBase64 whose jpeg case runs the png decoder
encodeImageToBase64WrongDecoder(data, mime) ==
    LET supported == \/ HasPrefix(mime, ImageWebp)
                     \/ HasPrefix(mime, ImageJpeg)
                     \/ HasPrefix(mime, ImagePng)
        decodeErr == IF HasPrefix(mime, ImageWebp) THEN webpDecode(data)
                     ELSE pngDecode(data)
    IN  IF ~supported
        THEN [s |-> <<>>, err |-> Errorf("unsupported image type", mime, "")]
        ELSE IF decodeErr # ""
        THEN [s |-> <<>>, err |-> Errorf("invalid image data for", mime, decodeErr)]
        ELSE [s |-> EncodeToString(data), err |-> Nil]

\* encodeImageToBase64 that encodes a re-encoded image (here: the file without
\* its last byte) instead of the bytes it was given
encodeImageToBase64Reencoded(data, mime) ==
    LET supported == \/ HasPrefix(mime, ImageWebp)
                     \/ HasPrefix(mime, ImageJpeg)
                     \/ HasPrefix(mime, ImagePng)
        decodeErr == IF HasPrefix(mime, ImageWebp) THEN webpDecode(data)
                     ELSE IF HasPrefix(mime, ImageJpeg) THEN jpegDecode(data)
                     ELSE pngDecode(data)
    IN  IF ~supported
        THEN [s |-> <<>>, err |-> Errorf("unsupported image type", mime, "")]
        ELSE IF decodeErr # ""
        THEN [s |-> <<>>, err |-> Errorf("invalid image data for", mime, decodeErr)]
        ELSE [s |-> EncodeToString(SubSeq(data, 1, Len(data) - 1)), err |-> Nil]

\* encodeImageToBase64 without the default case of the switch: a type that
\* matches no case is encoded unvalidated
encodeImageToBase64NoDefault(data, mime) ==
    LET decodeErr == IF HasPrefix(mime, ImageWebp) THEN webpDecode(data)
                     ELSE IF HasPrefix(mime, ImageJpeg) THEN jpegDecode(data)
                     ELSE IF HasPrefix(mime, ImagePng) THEN pngDecode(data)
                     ELSE ""
    IN  IF decodeErr # ""
        THEN [s |-> <<>>, err |-> Errorf("invalid image data for", mime, decodeErr)]
        ELSE [s |-> EncodeToString(data), err |-> Nil]

\* encodeImageToBase64(data, mimeType): (string, err)
encodeImageToBase64(data, mime) ==
    LET supported == \/ HasPrefix(mime, ImageWebp)
                     \/ HasPrefix(mime, ImageJpeg)
                     \/ HasPrefix(mime, ImagePng)
        decodeErr == IF HasPrefix(mime, ImageWebp) THEN webpDecode(data)
                     ELSE IF HasPrefix(mime, ImageJpeg) THEN jpegDecode(data)
                     ELSE pngDecode(data)
    IN  IF ~supported
        THEN [s |-> <<>>, err |-> Errorf("unsupported image type", mime, "")]
        ELSE IF decodeErr # ""
        THEN [s |-> <<>>, err |-> Errorf("invalid image data for", mime, decodeErr)]
        ELSE [s |-> EncodeToString(data), err |-> Nil]

----------------------------------------------------------------------------
(* text/template and generateMarkdown *)

\* A template is a sequence of items: literal text, a field action
\* {{.Name}}, or an action that is never closed.
Txt(t)      == [kind |-> "text", text |-> t, name |-> ""]
Field(n)    == [kind |-> "field", text |-> <<>>, name |-> n]
Unclosed    == [kind |-> "unclosed", text |-> <<>>, name |-> ""]

TplFull     == <<Txt(<<"!","[","]","(">>), Field("ImageURL"), Txt(<<")"," ">>),
                 Field("BuildTimestamp")>>
TplImage    == <<Field("ImageURL")>>
TplPlain    == <<Txt(<<"h","i">>)>>
TplUnclosed == <<Field("ImageURL"), Unclosed>>
TplBadField == <<Txt(<<"h","i">>), Field("Nope")>>

\* what os.ReadFile("tpl/README.md.tmpl") answers: the file, or no file
TemplateFiles ==
    {[readErr |-> "", items |-> t] : t \in {TplFull, TplImage, TplPlain, TplUnclosed, TplBadField}}
    \cup {[readErr |-> "no such file or directory", items |-> <<>>]}

\* what time.Now().Format(time.RFC3339) answers
Timestamps == {<<"2","0","2","6","-","1","1","-","0","2","T","2","1",":","3","8",":","0","0","Z">>,
               <<"2","0","2","6","-","1","1","-","0","3","T","0","0",":","0","0",":","0","0","+","0","1",":","0","0">>}

\* template.Parse: the parse error ("" for none)
Parse(items) ==
    IF \E i \in 1..Len(items) : items[i].kind = "unclosed" THEN "unclosed action" ELSE ""

\* the fields of the struct handed to tmpl.Execute
DataFields == {"ImageURL", "BuildTimestamp"}

\* tmpl.Execute: the execute error ("" for none)
ExecuteErr(items) ==
    IF \E i \in 1..Len(items) : items[i].kind = "field" /\ items[i].name \notin DataFields
    THEN "can't evaluate field" ELSE ""

RECURSIVE Execute(_, _)
Execute(items, data) ==
    IF Len(items) = 0 THEN <<>>
    ELSE (IF items[1].kind = "text" THEN items[1].text ELSE data[items[1].name])
         \o Execute(Tail(items), data)

\* the Sprintf with its two arguments swapped
DataURISwapped(mime, b64) ==
    <<"d","a","t","a",":">> \o b64 \o <<";","b","a","s","e","6","4",",">> \o mime

\* fmt.Sprintf("data:%s;base64,%s", mimeType, base64Data)
DataURI(mime, b64) ==
    <<"d","a","t","a",":">> \o mime \o <<";","b","a","s","e","6","4",",">> \o b64

\* generateMarkdown(base64Data, mimeType), with the template file and the clock
\* it reads: (string, err); imageURL is the ImageURL field it hands to Execute
generateMarkdown(b64, mime, file, now) ==
    LET dataURI == DataURI(mime, b64)
        data    == [ImageURL |-> dataURI, BuildTimestamp |-> now]
    IN  IF file.readErr # ""
        THEN [s |-> <<>>, imageURL |-> <<>>,
              err |-> Errorf("reading README.md.tmpl", <<>>, file.readErr)]
        ELSE IF Parse(file.items) # ""
        THEN [s |-> <<>>, imageURL |-> <<>>,
              err |-> Errorf("parsing template", <<>>, Parse(file.items))]
        ELSE IF ExecuteErr(file.items) # ""
        THEN [s |-> <<>>, imageURL |-> dataURI,
              err |-> Errorf("executing template", <<>>, ExecuteErr(file.items))]
        ELSE [s |-> Execute(file.items, data), imageURL |-> dataURI, err |-> Nil]

----------------------------------------------------------------------------
(* README.md and os.WriteFile *)

Absent  == [kind |-> "absent", text |-> <<>>]
OldFile == [kind |-> "old", text |-> <<"o","l","d">>]

\* what os.WriteFile answers: the file cannot be opened (left as it was), the
\* write fails after the truncating open (some prefix is on disk), or success
WriteOutcomes == {"ok", "open failed", "write failed"}

WriteFile(file, text, outcome, n) ==
    IF outcome = "ok" THEN [kind |-> "new", text |-> text]
    ELSE IF outcome = "open failed" THEN file
    ELSE [kind |-> "partial", text |-> SubSeq(text, 1, n)]

\* the *PathError os.WriteFile returns
WriteErr(outcome) ==
    IF outcome = "ok" THEN Nil
    ELSE IF outcome = "open failed" THEN Errorf("open README.md", <<>>, "permission denied")
    ELSE Errorf("write README.md", <<>>, "no space left on device")

----------------------------------------------------------------------------
(* main *)

\* log.Fatalf("<what>: %v", err)
NoLog == [what |-> "", err |-> Nil]
Fatalf(what, e) == [what |-> what, err |-> e]

\* the state when main starts, with the url it hands to fetchImage
InitWith(urls) ==
    /\ pc = "fetch"
    /\ url \in urls
    /\ resp = NoResp
    /\ imageData = <<>>
    /\ mimeType = <<>>
    /\ base64Data = <<>>
    /\ markdown = <<>>
    /\ err = Nil
    /\ imageURL = <<>>
    /\ tplFile \in TemplateFiles
    /\ readme \in {Absent, OldFile}
    /\ gets = 0
    /\ writes = 0
    /\ printed = 0
    /\ fatalLog = NoLog
    /\ trace = <<>>

Init == InitWith({imgURL})

\* main that calls fetchImage again after a first request that could not be made
MainFetchRetry ==
    /\ pc = "fetch"
    /\ \E net \in NetOutcomes :
         LET r == fetchImage(url, net)
         IN  /\ resp' = IF ValidURL(url) THEN net ELSE NoResp
             /\ gets' = IF ValidURL(url) THEN gets + 1 ELSE gets
             /\ imageData' = r.data
             /\ mimeType' = r.mime
             /\ err' = r.err
             /\ IF r.err # Nil /\ r.err.msg = "making request" /\ gets = 0
                THEN /\ fatalLog' = fatalLog
                     /\ pc' = "fetch"
                ELSE IF r.err # Nil
                THEN /\ fatalLog' = Fatalf("Failed to fetch image", r.err)
                     /\ pc' = "fatal"
                ELSE /\ fatalLog' = fatalLog
                     /\ pc' = "encode"
    /\ trace' = Append(trace, "fetch")
    /\ UNCHANGED <<url, base64Data, markdown, imageURL, tplFile, readme, writes, printed>>

\* imageData, mimeType, err := fetchImage(ctx, imgURL)
MainFetch ==
    /\ pc = "fetch"
    /\ \E net \in NetOutcomes :
         LET r == fetchImage(url, net)
         IN  /\ resp' = IF ValidURL(url) THEN net ELSE NoResp
             /\ gets' = IF ValidURL(url) THEN gets + 1 ELSE gets
             /\ imageData' = r.data
             /\ mimeType' = r.mime
             /\ err' = r.err
             /\ IF r.err # Nil
                THEN /\ fatalLog' = Fatalf("Failed to fetch image", r.err)
                     /\ pc' = "fatal"
                ELSE /\ fatalLog' = fatalLog
                     /\ pc' = "encode"
    /\ trace' = Append(trace, "fetch")
    /\ UNCHANGED <<url, base64Data, markdown, imageURL, tplFile, readme, writes, printed>>

\* main without the err check of lines 36-38
MainEncodeIgnoreErr ==
    /\ pc = "encode"
    /\ LET r == encodeImageToBase64(imageData, mimeType)
       IN  /\ base64Data' = r.s
           /\ err' = r.err
           /\ fatalLog' = fatalLog
           /\ pc' = "render"
    /\ trace' = Append(trace, "encode")
    /\ UNCHANGED <<url, resp, imageData, mimeType, markdown, imageURL, tplFile, readme,
                   gets, writes, printed>>

\* base64Data, err := encodeImageToBase64(imageData, mimeType)
MainEncode ==
    /\ pc = "encode"
    /\ LET r == encodeImageToBase64(imageData, mimeType)
       IN  /\ base64Data' = r.s
           /\ err' = r.err
           /\ IF r.err # Nil
              THEN /\ fatalLog' = Fatalf("Failed to encode image", r.err)
                   /\ pc' = "fatal"
              ELSE /\ fatalLog' = fatalLog
                   /\ pc' = "render"
    /\ trace' = Append(trace, "encode")
    /\ UNCHANGED <<url, resp, imageData, mimeType, markdown, imageURL, tplFile, readme,
                   gets, writes, printed>>

\* markdown, err := generateMarkdown(base64Data, mimeType)
MainRender ==
    /\ pc = "render"
    /\ \E now \in Timestamps :
         LET r == generateMarkdown(base64Data, mimeType, tplFile, now)
         IN  /\ markdown' = r.s
             /\ imageURL' = r.imageURL
             /\ err' = r.err
             /\ IF r.err # Nil
                THEN /\ fatalLog' = Fatalf("Failed to generate markdown", r.err)
                     /\ pc' = "fatal"
                ELSE /\ fatalLog' = fatalLog
                     /\ pc' = "write"
    /\ trace' = Append(trace, "render")
    /\ UNCHANGED <<url, resp, imageData, mimeType, base64Data, tplFile, readme,
                   gets, writes, printed>>

\* main without the err check of lines 47-49
MainWriteIgnoreErr ==
    /\ pc = "write"
    /\ \E outcome \in WriteOutcomes, n \in {0, Len(markdown) \div 2} :
         /\ readme' = WriteFile(readme, markdown, outcome, n)
         /\ err' = WriteErr(outcome)
         /\ fatalLog' = fatalLog
         /\ pc' = "print"
    /\ writes' = writes + 1
    /\ trace' = Append(trace, "write")
    /\ UNCHANGED <<url, resp, imageData, mimeType, base64Data, markdown, imageURL,
                   tplFile, gets, printed>>

\* err = os.WriteFile("README.md", []byte(markdown), 0644)
MainWrite ==
    /\ pc = "write"
    /\ \E outcome \in WriteOutcomes, n \in {0, Len(markdown) \div 2} :
         /\ readme' = WriteFile(readme, markdown, outcome, n)
         /\ err' = WriteErr(outcome)
         /\ IF WriteErr(outcome) # Nil
            THEN /\ fatalLog' = Fatalf("Failed to write README.md", WriteErr(outcome))
                 /\ pc' = "fatal"
            ELSE /\ fatalLog' = fatalLog
                 /\ pc' = "print"
    /\ writes' = writes + 1
    /\ trace' = Append(trace, "write")
    /\ UNCHANGED <<url, resp, imageData, mimeType, base64Data, markdown, imageURL,
                   tplFile, gets, printed>>

\* fmt.Println("README.md updated successfully")
MainPrint ==
    /\ pc = "print"
    /\ printed' = printed + 1
    /\ pc' = "done"
    /\ trace' = Append(trace, "print")
    /\ UNCHANGED <<url, resp, imageData, mimeType, base64Data, markdown, err,
                   imageURL, tplFile, readme, gets, writes, fatalLog>>

Next == MainFetch \/ MainEncode \/ MainRender \/ MainWrite \/ MainPrint

Spec == Init /\ [][Next]_vars

\* fetchImage takes its url as a parameter: the same pipeline, run with any
\* url, exercises the request-construction branch that imgURL never takes
InitAnyURL == InitWith({imgURL, MalformedURL})

SpecAnyURL == InitAnyURL /\ [][Next]_vars

\* the process is scheduled until it exits: every stage is a bounded call
\* (the client's 10 s timeout inside the 30 s context) or local work
FairSpec == Spec /\ WF_vars(Next)

TypeOK ==
    /\ pc \in {"fetch", "encode", "render", "write", "print", "done", "fatal"}
    /\ resp \in NetOutcomes \cup {NoResp}
    /\ gets \in 0..1
    /\ writes \in 0..1
    /\ printed \in 0..1

----------------------------------------------------------------------------
(* Vocabulary of the properties *)

\* the allow-list of section 3 of the specification
SupportedTypes == {ImageWebp, ImageJpeg, ImagePng}

\* the decoder of a supported type, applied to data
DecodeErrOf(type, data) ==
    IF type = ImageWebp THEN webpDecode(data)
    ELSE IF type = ImageJpeg THEN jpegDecode(data)
    ELSE pngDecode(data)

Terminated == pc \in {"done", "fatal"}
Untouched  == writes = 0 /\ readme \in {Absent, OldFile}
LastStage  == IF trace = <<>> THEN "" ELSE trace[Len(trace)]
StageOrder == <<"fetch", "encode", "render", "write", "print">>

\* the server answered 200 and the body was read
FetchOK == resp.kind = "resp" /\ resp.status = StatusOK /\ ~resp.readErr

\* Content-Type when the header is there, the sniffed type otherwise
HeaderOrSniffed ==
    IF resp.contentType # <<>> THEN resp.contentType ELSE DetectContentType(resp.body)

\* base64.StdEncoding.DecodeString, on well-formed input
B64Index(c) == CHOOSE i \in 0..63 : B64Alphabet[i + 1] = c
RECURSIVE DecodeString(_)
DecodeString(s) ==
    IF Len(s) = 0 THEN <<>>
    ELSE LET a == B64Index(s[1])
             b == B64Index(s[2])
         IN  IF s[3] = "=" THEN <<a * 4 + b \div 16>>
             ELSE IF s[4] = "="
             THEN <<a * 4 + b \div 16, (b % 16) * 16 + B64Index(s[3]) \div 4>>
             ELSE <<a * 4 + b \div 16,
                    (b % 16) * 16 + B64Index(s[3]) \div 4,
                    (B64Index(s[3]) % 4) * 64 + B64Index(s[4])>>
                  \o DecodeString(SubSeq(s, 5, Len(s)))

\* the part of a data URI after its first "base64,"
Base64Marker == <<"b","a","s","e","6","4",",">>
Payload(uri) ==
    LET at(i) == SubSeq(uri, i, i + Len(Base64Marker) - 1) = Base64Marker
        starts == {i \in 1..(Len(uri) - Len(Base64Marker) + 1) : at(i)}
        first == CHOOSE i \in starts : \A j \in starts : i <= j
    IN  SubSeq(uri, first + Len(Base64Marker), Len(uri))

\* the failure condition a run meets first, read off what the environment
\* answered; "" when every stage up to the write succeeds
FirstFailure ==
    IF ~ValidURL(url) THEN "creating request"
    ELSE IF resp.kind = "neterr" THEN "making request"
    ELSE IF resp.kind = "resp" /\ resp.status # StatusOK THEN "unexpected status code"
    ELSE IF resp.kind = "resp" /\ resp.readErr THEN "reading response body"
    ELSE IF ~\E p \in SupportedTypes : HasPrefix(HeaderOrSniffed, p)
    THEN "unsupported image type"
    ELSE IF \E p \in SupportedTypes :
                HasPrefix(HeaderOrSniffed, p) /\ DecodeErrOf(p, resp.body) # ""
    THEN "invalid image data for"
    ELSE IF tplFile.readErr # "" THEN "reading README.md.tmpl"
    ELSE IF Parse(tplFile.items) # "" THEN "parsing template"
    ELSE IF ExecuteErr(tplFile.items) # "" THEN "executing template"
    ELSE ""

\* the stage a failure condition belongs to, and main's message for the stage
StageOfFailure(msg) ==
    IF msg \in {"creating request", "making request", "unexpected status code",
                "reading response body"} THEN "fetch"
    ELSE IF msg \in {"unsupported image type", "invalid image data for"} THEN "encode"
    ELSE IF msg \in {"reading README.md.tmpl", "parsing template", "executing template"}
    THEN "render"
    ELSE "write"
FatalPrefix(stage) ==
    IF stage = "fetch" THEN "Failed to fetch image"
    ELSE IF stage = "encode" THEN "Failed to encode image"
    ELSE IF stage = "render" THEN "Failed to generate markdown"
    ELSE "Failed to write README.md"

----------------------------------------------------------------------------
(* The properties *)

\* C1: whenever the response status is not 200, whatever its body and headers,
\* fetchImage returns the status error, the run is fatal at the fetch stage,
\* and README.md is neither written nor changed.
C1_NonOKStatusIsFatal ==
    (resp.kind = "resp" /\ resp.status # StatusOK) =>
        /\ err = Errorf("unexpected status code", <<>>, ToString(resp.status))
        /\ pc = "fatal"
        /\ fatalLog = Fatalf("Failed to fetch image", err)
        /\ trace = <<"fetch">>
        /\ Untouched

\* a 404 whose body is a valid PNG under Content-Type image/png has ended the run
C1_Witness ==
    /\ pc = "fatal"
    /\ resp.kind = "resp" /\ resp.status = 404
    /\ resp.contentType = ImagePng /\ pngDecode(resp.body) = ""
    /\ readme = OldFile

C3_FatalOnFirstError ==
    /\ err # Nil => pc = "fatal"
    /\ pc = "fatal" =>
          /\ err # Nil /\ fatalLog.err = err
          /\ fatalLog.what = FatalPrefix(LastStage)
          /\ ~ENABLED Next
          /\ LastStage # "write" => Untouched /\ printed = 0
    /\ (/\ FetchOK /\ resp.contentType = ImagePng /\ pngDecode(resp.body) # ""
        /\ Len(trace) >= 2) =>
          /\ pc = "fatal" /\ trace = <<"fetch", "encode">>
          /\ err.msg = "invalid image data for"
          /\ Untouched

\* a bare PNG signature under Content-Type image/png has ended the run at validation
C3_Witness ==
    /\ pc = "fatal"
    /\ FetchOK /\ resp.contentType = ImagePng /\ resp.body = PngSig
    /\ trace = <<"fetch", "encode">>
    /\ readme = OldFile

\* C4: once the data URI is built, base64-decoding the part after "base64,"
\* gives back exactly the bytes of the response body.
C4_Base64RoundTrip ==
    imageURL # <<>> =>
        /\ DecodeString(Payload(imageURL)) = resp.body
        /\ Payload(imageURL) = base64Data

\* a body whose length is not a multiple of three (so the payload is padded)
\* has been validated and put into the data URI
C4_Witness ==
    /\ imageURL # <<>>
    /\ resp.body = WebpSig \o <<255, 0>>
    /\ Len(resp.body) % 3 = 1
    /\ SubSeq(imageURL, Len(imageURL) - 1, Len(imageURL)) = <<"=", "=">>
    /\ DecodeString(Payload(imageURL)) = resp.body

\* C5: in a successful run the image reference handed to the template is
\* "data:" + mime + ";base64," + base64 of the fetched bytes, with the mime
\* type the fetcher resolved for those bytes; PNG bytes under Content-Type
\* image/png give "data:image/png;base64," and the base64 of the exact bytes.
C5_DataURI ==
    pc = "done" =>
        /\ imageURL = <<"d","a","t","a",":">> \o HeaderOrSniffed
                      \o <<";","b","a","s","e","6","4",",">> \o EncodeToString(resp.body)
        /\ (resp.contentType = ImagePng /\ resp.body = PngSig \o <<77>>) =>
              imageURL = <<"d","a","t","a",":","i","m","a","g","e","/","p","n","g",
                           ";","b","a","s","e","6","4",",",
                           "i","V","B","O","R","w","0","K","G","g","p","N">>
        /\ tplFile.items = TplImage => readme.text = imageURL

\* a run on PNG bytes under Content-Type image/png has succeeded
C5_Witness ==
    /\ pc = "done"
    /\ resp.contentType = ImagePng /\ resp.body = PngSig \o <<77>>
    /\ tplFile.items = TplImage
    /\ readme.kind = "new"

\* C6: after a successful fetch the MIME type is the Content-Type header when
\* the header is non-empty and the type sniffed from the body otherwise, and
\* the bytes are the response body unchanged.
C6_MimeFromHeaderElseSniffed ==
    (FetchOK /\ trace # <<>>) =>
        /\ resp.contentType # <<>> => mimeType = resp.contentType
        /\ resp.contentType = <<>> => mimeType = DetectContentType(resp.body)
        /\ imageData = resp.body

\* a fetch has returned the header's type although the body sniffs as another
C6_Witness ==
    /\ FetchOK /\ trace # <<>>
    /\ resp.contentType = ImageJpeg
    /\ DetectContentType(resp.body) = ImagePng
    /\ mimeType = ImageJpeg

\* C7, as stated: a MIME type that reaches the data URI is one of image/webp,
\* image/jpeg, image/png.
C7_Original ==
    imageURL # <<>> => mimeType \in SupportedTypes

\* C7, amended: a MIME type that reaches the data URI begins with one of
\* image/webp, image/jpeg, image/png, and the data URI begins with "data:"
\* followed by that prefix; anything may follow the prefix.
C7_MimePrefixAllowListed ==
    imageURL # <<>> =>
        \E p \in SupportedTypes :
            /\ HasPrefix(mimeType, p)
            /\ HasPrefix(imageURL, <<"d","a","t","a",":">> \o p)

\* a MIME type with a parameter after the allow-listed prefix is in README.md
C7_Witness ==
    /\ imageURL # <<>>
    /\ mimeType = ImagePngParam
    /\ readme.kind = "new"
    /\ tplFile.items = TplFull

\* C8: every run ends, either fatally or successfully, and stays ended; the
\* confirmation line is printed at most once, exactly when README.md was
\* written without error, and never in a run that ends fatally.
C8_Outcome ==
    /\ printed <= 1
    /\ printed = 1 => readme.kind = "new" /\ writes = 1 /\ pc = "done"
    /\ pc = "done" => printed = 1 /\ fatalLog = NoLog /\ err = Nil
    /\ pc = "fatal" => printed = 0 /\ fatalLog # NoLog /\ readme.kind # "new"
    /\ Terminated => (printed = 1 <=> readme.kind = "new")
C8_TerminatesWithOneOutcome ==
    /\ <>Terminated
    /\ []C8_Outcome
    /\ [][~Terminated]_vars

\* a run has printed the confirmation after writing README.md
C8_Witness ==
    /\ pc = "done"
    /\ printed = 1
    /\ readme.kind = "new"
    /\ trace = StageOrder

\* C9: the stages run at most once each, in the order fetch, encode, render,
\* write; one request is issued whatever it answers; README.md is written at
\* most once, once in a successful run, and only after rendering succeeded.
C9_StagesOnceInOrder ==
    /\ Len(trace) <= Len(StageOrder)
    /\ trace = SubSeq(StageOrder, 1, Len(trace))
    /\ gets = IF trace = <<>> THEN 0 ELSE 1
    /\ writes = IF Len(trace) >= 4 THEN 1 ELSE 0
    /\ pc = "done" => writes = 1 /\ readme = [kind |-> "new", text |-> markdown]
    /\ writes = 1 =>
          /\ tplFile.readErr = ""
          /\ Parse(tplFile.items) = ""
          /\ ExecuteErr(tplFile.items) = ""
          /\ imageURL # <<>>

\* a request that could not be made has ended the run after one attempt
C9_Witness ==
    /\ pc = "fatal"
    /\ resp.kind = "neterr"
    /\ gets = 1
    /\ trace = <<"fetch">>

\* C10: a fatal run reports the error of the first failure condition it met,
\* each condition under its own message and under the message of its stage,
\* and the operation that failed returned nil bytes / the empty string.
C10_DistinctErrors ==
    /\ pc = "fatal" =>
          /\ LastStage # "write" => err.msg = FirstFailure
          /\ LastStage = "write" =>
                /\ FirstFailure = ""
                /\ err.msg \in {"open README.md", "write README.md"}
          /\ LastStage = StageOfFailure(err.msg)
          /\ fatalLog = Fatalf(FatalPrefix(StageOfFailure(err.msg)), err)
          /\ LastStage = "fetch" => imageData = <<>> /\ mimeType = <<>>
          /\ LastStage = "encode" => base64Data = <<>>
          /\ LastStage = "render" => markdown = <<>>
    /\ pc \in {"print", "done"} => FirstFailure = "" /\ err = Nil

\* a url that cannot be parsed has ended the run with the request-construction error
C10_Witness ==
    /\ pc = "fatal"
    /\ url = MalformedURL
    /\ err.msg = "creating request"
    /\ gets = 0

====
